---- MODULE Spec2Model ----
(***************************************************************************)
(* Seller discovery of the swap CLI: EventLoop::run of                     *)
(* swap/src/cli/list_sellers.rs, driven by the single serialized event     *)
(* stream of the libp2p swarm (connection events, rendezvous discovery,    *)
(* quote request-response events).  One action models one iteration of     *)
(* the loop: the handler of the event followed by the match on self.state  *)
(* that decides whether the loop continues, breaks with the sellers or     *)
(* panics on a missing address.                                            *)
(***************************************************************************)
EXTENDS Integers, Sequences, FiniteSets, TLC

VARIABLES
    state,              \* EventLoop.state
    asb_address,        \* EventLoop.asb_address: HashMap<PeerId, Multiaddr>
    asb_quote_status,   \* EventLoop.asb_quote_status: HashMap<PeerId, QuoteStatus>
    pc,                 \* position of run(): "running", "aborted", "done", "panicked"
    sellers,            \* the Vec<Seller> run() returns
    quote_addresses,    \* swarm: addresses registered with the quote behaviour
    outstanding,        \* swarm: quote requests issued and not yet answered, per peer
    connected,          \* swarm: the peers a connection was established with
    discover_pending,   \* swarm: discovery queries issued and not yet answered
    batches,            \* history: number of discovery responses processed
    responded,          \* history: the peers a Response event was delivered from
    failure,            \* history, per peer: "none", "failed" (an OutboundFailure event
                        \* and no batch listing the peer since), "relisted" (a batch
                        \* listed the peer again after an OutboundFailure event)
    discarded,          \* history: peers whose Received quote a later batch reset
    io,                 \* codec: the frame on the stream a codec operation is given
    sent,               \* codec, history: the write operation that produced the frame
    received            \* codec: the outcome of the read operation on the frame

\* The fields of the event loop and of its swarm.
loop_vars == << state, asb_address, asb_quote_status, pc, sellers,
                quote_addresses, outstanding, connected, discover_pending,
                batches, responded, failure, discarded >>

\* The stream of the codec and what was written to and read from it.
codec_vars == << io, sent, received >>

vars == << state, asb_address, asb_quote_status, pc, sellers, quote_addresses,
           outstanding, connected, discover_pending, batches, responded,
           failure, discarded, io, sent, received >>

-----------------------------------------------------------------------------
(* Bounds and the universe of the model *)

\* Number of discovery queries of one run (one per connection established
\* with the rendezvous node).
MaxBatches == 2

rendezvous_peer_id == "RV"

\* The peers the swarm may report.  The rendezvous node may itself be
\* registered in the namespace, so it is a peer a batch may list.
Peers == {rendezvous_peer_id, "P1", "P2"}

\* BidQuote values.  The quotes of distinct peers are distinct values, so
\* that a quote tells which peer sent it.
QuotesOf(peer) == IF peer = "P1" THEN {"Q1", "Q1b"}
                  ELSE IF peer = "P2" THEN {"Q2"} ELSE {"Q0"}

\* A Multiaddr is the sequence of its protocol components.
rendezvous_addr == << "rvhost" >>

\* The addresses of the registration record of `peer`, without and with the
\* /p2p/<peer> suffix.  The addresses of distinct peers are distinct
\* values, so that an address tells whose it is.
RecordAddrs(peer) ==
    IF peer = "P1" THEN { << "host1" >>, << "host1", "P1" >> }
    ELSE IF peer = "P2" THEN { << "host2" >> }
    ELSE { << "rvhost", rendezvous_peer_id >> }

\* QuoteStatus
Pending == [tag |-> "Pending"]

Received(quote) == [tag |-> "Received", quote |-> quote]

\* struct Seller
Seller(peer_id, multiaddr, quote) ==
    [peer_id |-> peer_id, multiaddr |-> multiaddr, quote |-> quote]

-----------------------------------------------------------------------------
(* HashMap and Multiaddr operations *)

\* HashMap::insert
Insert(map, key, value) ==
    [k \in (DOMAIN map) \cup {key} |-> IF k = key THEN value ELSE map[k]]

\* HashMap::remove
Remove(map, key) == [k \in (DOMAIN map) \ {key} |-> map[k]]

EmptyMap == [k \in {} |-> {}]

\* Multiaddr::empty().with(Protocol::P2p(peer))
p2p_suffix(peer) == << peer >>

\* Multiaddr::ends_with
ends_with(address, suffix) ==
    /\ Len(address) >= Len(suffix)
    /\ SubSeq(address, Len(address) - Len(suffix) + 1, Len(address)) = suffix

\* let _address_with_p2p = ...
address_with_p2p(peer, address) ==
    IF ~ends_with(address, p2p_suffix(peer))
    THEN address \o p2p_suffix(peer)
    ELSE address

-----------------------------------------------------------------------------
(* Messages of swap/src/network/request_response.rs and their encoding *)

\* Message receive buffer.
BUF_SIZE == 1024 * 1024

\* Size in bytes of the encoding of a payload far below the receive buffer.
SmallBody == 64

Enums == {"BobToAlice", "AliceToBob", "Request", "Response"}

\* The variants of each enum.
Variants(enum) ==
    IF enum = "BobToAlice" THEN {"SwapRequest", "Message0", "Message2", "Message4"}
    ELSE IF enum = "AliceToBob" THEN {"SwapResponse", "Message1", "Message3", "Message2"}
    ELSE {"TransferProof", "EncryptedSignature"}

\* The variants that carry no payload.
UnitVariants(enum) ==
    IF enum = "AliceToBob" THEN {"Message2"}
    ELSE IF enum = "Response" THEN {"TransferProof", "EncryptedSignature"}
    ELSE {}

\* The type boxed by a variant that carries a payload.
PayloadType(enum, variant) ==
    IF enum = "BobToAlice"
    THEN (IF variant = "SwapRequest" THEN "bob::SwapRequest"
          ELSE IF variant = "Message0" THEN "bob::Message0"
          ELSE IF variant = "Message2" THEN "bob::Message2"
          ELSE "bob::Message4")
    ELSE IF enum = "AliceToBob"
    THEN (IF variant = "SwapResponse" THEN "alice::SwapResponse"
          ELSE IF variant = "Message1" THEN "alice::Message1"
          ELSE "alice::Message3")
    ELSE (IF variant = "TransferProof" THEN "alice::TransferProof"
          ELSE "bob::EncryptedSignature")

\* Length in bytes of the name of a variant.
name_len(variant) ==
    IF variant = "SwapRequest" THEN 11
    ELSE IF variant = "SwapResponse" THEN 12
    ELSE IF variant = "TransferProof" THEN 13
    ELSE IF variant = "EncryptedSignature" THEN 18
    ELSE 8

\* Bytes serde_cbor puts around the payload of a variant: the header of a
\* map of one pair, the header of the text string of the name, the name.
Overhead(variant) == 1 + 1 + name_len(variant)

NoBody == [type |-> "unit", size |-> 0]

\* The payloads of a variant: the encoding of a value of the boxed type,
\* by its size in bytes.  The sizes are far below the receive buffer and
\* such that the encoded message has BUF_SIZE and BUF_SIZE + 1 bytes.
Bodies(enum, variant) ==
    { [type |-> PayloadType(enum, variant), size |-> n] :
        n \in { SmallBody, BUF_SIZE - Overhead(variant),
                BUF_SIZE - Overhead(variant) + 1 } }

\* The values of an enum.
Messages(enum) ==
    UNION { IF variant \in UnitVariants(enum)
            THEN { [enum |-> enum, variant |-> variant, body |-> NoBody] }
            ELSE { [enum |-> enum, variant |-> variant, body |-> b] :
                     b \in Bodies(enum, variant) }
          : variant \in Variants(enum) }

\* io::Result
Ok(value) == [ok |-> TRUE, value |-> value]

Err(kind) == [ok |-> FALSE, kind |-> kind]

\* serde_cbor::to_vec(&msg) of an enum value: a unit variant is the text
\* string of its name, a variant with a payload is a map of one pair, the
\* name and the encoded payload.
to_vec(msg) ==
    IF msg.body = NoBody
    THEN [major |-> "text", name |-> msg.variant, value |-> NoBody,
          size |-> 1 + name_len(msg.variant)]
    ELSE [major |-> "map", name |-> msg.variant, value |-> msg.body,
          size |-> Overhead(msg.variant) + msg.body.size]

\* <enum>::deserialize(&mut serde_cbor::Deserializer::from_slice(&message))
deserialize(enum, message) ==
    IF message.major = "text"
    THEN IF message.name \in UnitVariants(enum)
         THEN Ok([enum |-> enum, variant |-> message.name, body |-> NoBody])
         ELSE Err("serde")
    ELSE IF /\ message.name \in Variants(enum) \ UnitVariants(enum)
            /\ message.value.type = PayloadType(enum, message.name)
         THEN Ok([enum |-> enum, variant |-> message.name, body |-> message.value])
         ELSE Err("serde")

NoFrame == [tag |-> "none"]

\* upgrade::write_one(io, &bytes): the length of the bytes, then the bytes.
write_one(bytes) == [tag |-> "frame", len |-> bytes.size, payload |-> bytes]

\* Mutant: the length is compared with the limit after the payload is read.
read_one_unlimited(frame, max_size) ==
    IF frame.payload.size < frame.len
    THEN Err("ReadOneError::Io")
    ELSE Ok(frame.payload)

\* upgrade::read_one(io, max_size): reads the length, fails if it exceeds
\* max_size, else reads that many bytes (fails if the stream ends before).
read_one(frame, max_size) ==
    IF frame.len > max_size
    THEN Err("ReadOneError::TooLarge")
    ELSE IF frame.payload.size < frame.len
    THEN Err("ReadOneError::Io")
    ELSE Ok(frame.payload)

NoBytes == [major |-> "none"]

\* The outcome of a read operation: the io::Result and the bytes the
\* deserializer was given (NoBytes if it was not run).
Outcome(result, bytes) == [result |-> result, deserialized |-> bytes]

\* Codec::read_request
Codec_read_request(frame) ==
    LET message == read_one(frame, BUF_SIZE)
    IN  IF ~message.ok
        THEN Outcome(Err("InvalidData"), NoBytes)
        ELSE LET msg == deserialize("BobToAlice", message.value)
             IN  Outcome(IF msg.ok THEN msg ELSE Err("Other"), message.value)

\* Mutant: the response is deserialized as the enum of the requests.
Codec_read_response_as_request(frame) ==
    LET message == read_one(frame, BUF_SIZE)
    IN  IF ~message.ok
        THEN Outcome(Err("InvalidData"), NoBytes)
        ELSE LET msg == deserialize("BobToAlice", message.value)
             IN  Outcome(IF msg.ok THEN msg ELSE Err("InvalidData"), message.value)

\* Codec::read_response
Codec_read_response(frame) ==
    LET message == read_one(frame, BUF_SIZE)
    IN  IF ~message.ok
        THEN Outcome(Err("InvalidData"), NoBytes)
        ELSE LET msg == deserialize("AliceToBob", message.value)
             IN  Outcome(IF msg.ok THEN msg ELSE Err("InvalidData"), message.value)

\* OneShotCodec::read_request
OneShotCodec_read_request(frame) ==
    LET message == read_one(frame, BUF_SIZE)
    IN  IF ~message.ok
        THEN Outcome(IF message.kind = "ReadOneError::Io"
                     THEN Err("UnexpectedEof") ELSE Err("Other"), NoBytes)
        ELSE LET msg == deserialize("Request", message.value)
             IN  Outcome(IF msg.ok THEN msg ELSE Err("Other"), message.value)

\* OneShotCodec::read_response
OneShotCodec_read_response(frame) ==
    LET message == read_one(frame, BUF_SIZE)
    IN  IF ~message.ok
        THEN Outcome(Err("InvalidData"), NoBytes)
        ELSE LET msg == deserialize("Response", message.value)
             IN  Outcome(IF msg.ok THEN msg ELSE Err("InvalidData"), message.value)

\* Codec::write_request
Codec_write_request(req) == write_one(to_vec(req))

\* Codec::write_response
Codec_write_response(res) == write_one(to_vec(res))

\* OneShotCodec::write_request
OneShotCodec_write_request(req) == write_one(to_vec(req))

\* OneShotCodec::write_response
OneShotCodec_write_response(res) == write_one(to_vec(res))

Codecs == {"Codec", "OneShotCodec"}

Directions == {"request", "response"}

\* type Request and type Response of the two RequestResponseCodec impls
EnumOf(codec, direction) ==
    IF codec = "Codec"
    THEN (IF direction = "request" THEN "BobToAlice" ELSE "AliceToBob")
    ELSE (IF direction = "request" THEN "Request" ELSE "Response")

\* The read operation of a codec for a direction.
read(codec, direction, frame) ==
    IF codec = "Codec"
    THEN (IF direction = "request"
          THEN Codec_read_request(frame) ELSE Codec_read_response(frame))
    ELSE (IF direction = "request"
          THEN OneShotCodec_read_request(frame)
          ELSE OneShotCodec_read_response(frame))

\* The write operation of a codec for a direction.
write(codec, direction, msg) ==
    IF codec = "Codec"
    THEN (IF direction = "request"
          THEN Codec_write_request(msg) ELSE Codec_write_response(msg))
    ELSE (IF direction = "request"
          THEN OneShotCodec_write_request(msg)
          ELSE OneShotCodec_write_response(msg))

NoWrite == [codec |-> "none"]

NoRead == [codec |-> "none"]

-----------------------------------------------------------------------------
(* The match on self.state that ends every iteration *)

\* The orders in which HashMap::iter may yield the keys of a map.
IterOrders(keys) ==
    { o \in [1..Cardinality(keys) -> keys] :
        \A i, j \in 1..Cardinality(keys) : i # j => o[i] # o[j] }

\* .map(...).collect::<Result<Vec<_>, _>>() over the entries in the order
\* `order`: stops at the first Pending entry, panics on a Received entry
\* without an address, else collects the sellers.
RECURSIVE Collect(_, _, _, _, _)
Collect(order, i, acc, quote_status, address) ==
    IF i > Len(order)
    THEN [pc |-> "done", sellers |-> acc]
    ELSE IF quote_status[order[i]] = Pending
    THEN [pc |-> "running", sellers |-> << >>]
    ELSE IF order[i] \notin DOMAIN address
    THEN [pc |-> "panicked", sellers |-> << >>]
    ELSE Collect(order, i + 1,
                 Append(acc, Seller(order[i], address[order[i]],
                                    quote_status[order[i]].quote)),
                 quote_status, address)

\* Mutant: a Pending entry is skipped instead of stopping the collection.
TerminationCheck_skips_pending(st, quote_status, address) ==
    IF st = "WaitForDiscovery"
    THEN { [pc |-> "running", sellers |-> << >>] }
    ELSE { Collect(o, 1, << >>, quote_status, address) :
             o \in IterOrders({ p \in DOMAIN quote_status : quote_status[p] # Pending }) }

\* Mutant: an empty quote-status map is taken for "nothing fetched yet".
TerminationCheck_waits_on_empty(st, quote_status, address) ==
    IF st = "WaitForDiscovery" \/ DOMAIN quote_status = {}
    THEN { [pc |-> "running", sellers |-> << >>] }
    ELSE { Collect(o, 1, << >>, quote_status, address) :
             o \in IterOrders(DOMAIN quote_status) }

\* The outcomes of the match for the given fields.
TerminationCheck(st, quote_status, address) ==
    IF st = "WaitForDiscovery"
    THEN { [pc |-> "running", sellers |-> << >>] }
    ELSE { Collect(o, 1, << >>, quote_status, address) :
             o \in IterOrders(DOMAIN quote_status) }

\* The end of an iteration: the match on the fields the handler left.
EndOfIteration ==
    \E out \in TerminationCheck(state', asb_quote_status', asb_address') :
        /\ pc' = out.pc
        /\ sellers' = out.sellers

-----------------------------------------------------------------------------
(* Initial state: EventLoop::new after list_sellers dialed the rendezvous node *)

Init ==
    /\ state = "WaitForDiscovery"
    /\ asb_address = EmptyMap
    /\ asb_quote_status = EmptyMap
    /\ pc = "running"
    /\ sellers = << >>
    /\ quote_addresses = [p \in Peers |-> {}]
    /\ outstanding = [p \in Peers |-> 0]
    /\ connected = {}
    /\ discover_pending = 0
    /\ batches = 0
    /\ responded = {}
    /\ failure = [p \in Peers |-> "none"]
    /\ discarded = {}
    /\ io = NoFrame
    /\ sent = NoWrite
    /\ received = NoRead

\* The addresses the swarm may dial for a peer.
DialAddrs(peer) ==
    IF peer = rendezvous_peer_id
    THEN {rendezvous_addr} \cup quote_addresses[peer]
    ELSE quote_addresses[peer]

-----------------------------------------------------------------------------
(* SwarmEvent::ConnectionEstablished { peer_id, endpoint } *)

\* Mutant: the address is recorded for the rendezvous node as well.
on_connection_established_any_peer(address_map, peer_id, address) ==
    Insert(address_map, peer_id, address)

\* The address map the handler leaves.
on_connection_established(address_map, peer_id, address) ==
    IF peer_id = rendezvous_peer_id
    THEN address_map
    ELSE Insert(address_map, peer_id, address)

\* Mutant: a new discovery query puts the loop back to WaitForDiscovery.
ConnectionEstablished_restarts_discovery(peer_id, address) ==
    /\ pc = "running"
    /\ address \in DialAddrs(peer_id)
    /\ IF peer_id = rendezvous_peer_id
       THEN /\ discover_pending + batches < MaxBatches
            /\ discover_pending' = discover_pending + 1
            /\ state' = "WaitForDiscovery"
       ELSE /\ discover_pending' = discover_pending
            /\ state' = state
    /\ asb_address' = on_connection_established(asb_address, peer_id, address)
    /\ connected' = connected \cup {peer_id}
    /\ UNCHANGED << asb_quote_status, quote_addresses, outstanding,
                    batches, responded, failure, discarded, codec_vars >>
    /\ EndOfIteration

\* The swarm reports a connection at an address it dialed.  Every
\* connection with the rendezvous node issues one discovery query; the
\* model bounds their number.
ConnectionEstablished(peer_id, address) ==
    /\ pc = "running"
    /\ address \in DialAddrs(peer_id)
    /\ IF peer_id = rendezvous_peer_id
       THEN /\ discover_pending + batches < MaxBatches
            /\ discover_pending' = discover_pending + 1    \* rendezvous.discover(...)
       ELSE /\ discover_pending' = discover_pending
    /\ asb_address' = on_connection_established(asb_address, peer_id, address)
    /\ connected' = connected \cup {peer_id}
    /\ UNCHANGED << state, asb_quote_status, quote_addresses, outstanding,
                    batches, responded, failure, discarded, codec_vars >>
    /\ EndOfIteration

-----------------------------------------------------------------------------
(* SwarmEvent::UnreachableAddr { peer_id, address } *)

\* Mutant: the rendezvous address is handled like the address of a seller.
UnreachableAddr_never_fatal(peer_id, address) ==
    /\ pc = "running"
    /\ address \in DialAddrs(peer_id)
    /\ asb_quote_status' = Remove(asb_quote_status, peer_id)
    /\ UNCHANGED << state, asb_address >>
    /\ EndOfIteration
    /\ UNCHANGED << quote_addresses, outstanding, connected, discover_pending,
                    batches, responded, failure, discarded, codec_vars >>

\* Mutant: the address recorded for the peer is forgotten as well.
UnreachableAddr_forgets_address(peer_id, address) ==
    /\ pc = "running"
    /\ address \in DialAddrs(peer_id)
    /\ IF address = rendezvous_addr
       THEN /\ pc' = "aborted"
            /\ sellers' = << >>
            /\ UNCHANGED << state, asb_address, asb_quote_status >>
       ELSE /\ asb_quote_status' = Remove(asb_quote_status, peer_id)
            /\ asb_address' = Remove(asb_address, peer_id)
            /\ UNCHANGED state
            /\ EndOfIteration
    /\ UNCHANGED << quote_addresses, outstanding, connected, discover_pending,
                    batches, responded, failure, discarded, codec_vars >>

\* The swarm reports an address it dialed as unreachable.
UnreachableAddr(peer_id, address) ==
    /\ pc = "running"
    /\ address \in DialAddrs(peer_id)
    /\ IF address = rendezvous_addr
       THEN /\ pc' = "aborted"
            /\ sellers' = << >>
            /\ UNCHANGED << state, asb_address, asb_quote_status >>
       ELSE /\ asb_quote_status' = Remove(asb_quote_status, peer_id)
            /\ UNCHANGED << state, asb_address >>
            /\ EndOfIteration
    /\ UNCHANGED << quote_addresses, outstanding, connected, discover_pending,
                    batches, responded, failure, discarded, codec_vars >>

-----------------------------------------------------------------------------
(* SwarmEvent::Behaviour(OutEvent::Rendezvous(Event::Discovered { registrations })) *)

\* The batches a discovery response may carry: the listed peers, each with
\* the addresses of its record.
Registrations ==
    { [p \in listed |-> RecordAddrs(p)] : listed \in SUBSET Peers }

\* Mutant: Pending is inserted only for a peer that has no entry yet.
on_discovered_keep_entry(quote_status, registrations) ==
    [p \in (DOMAIN quote_status) \cup
           { q \in DOMAIN registrations : registrations[q] # {} } |->
        IF p \in DOMAIN quote_status THEN quote_status[p] ELSE Pending]

\* for registration in registrations { for address in addresses { insert(peer, Pending) } }
on_discovered(quote_status, registrations) ==
    [p \in (DOMAIN quote_status) \cup
           { q \in DOMAIN registrations : registrations[q] # {} } |->
        IF p \in DOMAIN registrations /\ registrations[p] # {}
        THEN Pending
        ELSE quote_status[p]]

\* The address handed to quote.add_address for a discovered (peer, address).
registered_address(peer, address) == address

\* Mutant: the batch is processed without leaving the phase WaitForDiscovery.
Discovered_keeps_phase(registrations) ==
    /\ pc = "running"
    /\ discover_pending > 0
    /\ discover_pending' = discover_pending - 1
    /\ batches' = batches + 1
    /\ state' = state
    /\ asb_quote_status' = on_discovered(asb_quote_status, registrations)
    /\ quote_addresses' =
          [p \in Peers |->
              IF p \in DOMAIN registrations
              THEN quote_addresses[p] \cup
                   { registered_address(p, a) : a \in registrations[p] }
              ELSE quote_addresses[p]]
    /\ outstanding' =
          [p \in Peers |->
              IF p \in DOMAIN registrations
              THEN outstanding[p] + 1 ELSE outstanding[p]]
    /\ failure' =
          [p \in Peers |->
              IF p \in DOMAIN registrations /\ failure[p] = "failed"
              THEN "relisted" ELSE failure[p]]
    /\ discarded' = discarded \cup
          { p \in (DOMAIN registrations) \cap (DOMAIN asb_quote_status) :
              asb_quote_status[p] # Pending }
    /\ UNCHANGED << asb_address, connected, responded, codec_vars >>
    /\ EndOfIteration

\* The rendezvous node answers one discovery query.  One quote request is
\* sent per registration (send_request).
Discovered(registrations) ==
    /\ pc = "running"
    /\ discover_pending > 0
    /\ discover_pending' = discover_pending - 1
    /\ batches' = batches + 1
    /\ state' = "WaitForQuoteCompletion"
    /\ asb_quote_status' = on_discovered(asb_quote_status, registrations)
    /\ quote_addresses' =
          [p \in Peers |->
              IF p \in DOMAIN registrations
              THEN quote_addresses[p] \cup
                   { registered_address(p, a) : a \in registrations[p] }
              ELSE quote_addresses[p]]
    /\ outstanding' =
          [p \in Peers |->
              IF p \in DOMAIN registrations
              THEN outstanding[p] + 1 ELSE outstanding[p]]
    /\ failure' =
          [p \in Peers |->
              IF p \in DOMAIN registrations /\ failure[p] = "failed"
              THEN "relisted" ELSE failure[p]]
    /\ discarded' = discarded \cup
          { p \in (DOMAIN registrations) \cap (DOMAIN asb_quote_status) :
              asb_quote_status[p] # Pending }
    /\ UNCHANGED << asb_address, connected, responded, codec_vars >>
    /\ EndOfIteration

-----------------------------------------------------------------------------
(* SwarmEvent::Behaviour(OutEvent::Quote(RequestResponseEvent::...)) *)

\* Mutant: the quote is stored for every pending entry, not for its sender.
on_response_any_peer(quote_status, peer, response) ==
    [k \in DOMAIN quote_status |->
        IF quote_status[k] = Pending THEN Received(response) ELSE quote_status[k]]

\* Mutant: the quote is stored whether or not the peer has an entry.
on_response_no_purge(quote_status, peer, response) ==
    Insert(quote_status, peer, Received(response))

\* RequestResponseMessage::Response { response }
on_response(quote_status, peer, response) ==
    LET inserted == Insert(quote_status, peer, Received(response))
    IN  IF peer \in DOMAIN quote_status
        THEN inserted
        ELSE Remove(inserted, peer)

\* A response answers a request that is outstanding, on a connection whose
\* ConnectionEstablished event came first.
Response(peer, response) ==
    /\ pc = "running"
    /\ outstanding[peer] > 0
    /\ peer \in connected
    /\ outstanding' = [outstanding EXCEPT ![peer] = @ - 1]
    /\ asb_quote_status' = on_response(asb_quote_status, peer, response)
    /\ responded' = responded \cup {peer}
    /\ UNCHANGED << state, asb_address, quote_addresses, connected,
                    discover_pending, batches, failure, discarded, codec_vars >>
    /\ EndOfIteration

\* Mutant: the comparison with the rendezvous node is inverted.
on_failure_inverted(quote_status, peer) ==
    IF peer # rendezvous_peer_id
    THEN quote_status
    ELSE Remove(quote_status, peer)

\* Mutant: the rendezvous node is handled like a seller.
on_failure_no_exception(quote_status, peer) == Remove(quote_status, peer)

\* Mutant: a failure leaves the entry of every peer as it is.
on_failure_keeps_entry(quote_status, peer) == quote_status

\* RequestResponseEvent::OutboundFailure { peer } and InboundFailure { peer }
on_failure(quote_status, peer) ==
    IF peer = rendezvous_peer_id
    THEN quote_status
    ELSE Remove(quote_status, peer)

\* A request that is outstanding fails (dial failure, timeout, connection
\* closed, unsupported protocol).
OutboundFailure(peer) ==
    /\ pc = "running"
    /\ outstanding[peer] > 0
    /\ outstanding' = [outstanding EXCEPT ![peer] = @ - 1]
    /\ asb_quote_status' = on_failure(asb_quote_status, peer)
    /\ failure' = [failure EXCEPT ![peer] = "failed"]
    /\ UNCHANGED << state, asb_address, quote_addresses, connected,
                    discover_pending, batches, responded, discarded, codec_vars >>
    /\ EndOfIteration

\* An inbound stream of a connected peer fails; it answers no request.
InboundFailure(peer) ==
    /\ pc = "running"
    /\ peer \in connected
    /\ asb_quote_status' = on_failure(asb_quote_status, peer)
    /\ UNCHANGED << state, asb_address, quote_addresses, outstanding, connected,
                    discover_pending, batches, responded, failure, discarded, codec_vars >>
    /\ EndOfIteration

\* _ => {}: any other swarm event (dialing, connection closed, ping, ...)
OtherEvent ==
    /\ pc = "running"
    /\ UNCHANGED << state, asb_address, asb_quote_status, quote_addresses,
                    outstanding, connected, discover_pending, batches,
                    responded, failure, discarded, codec_vars >>
    /\ EndOfIteration

-----------------------------------------------------------------------------

Next ==
    \/ \E p \in Peers : \E a \in {rendezvous_addr} \cup RecordAddrs(p) :
          ConnectionEstablished(p, a)
    \/ \E p \in Peers : \E a \in {rendezvous_addr} \cup RecordAddrs(p) :
          UnreachableAddr(p, a)
    \/ \E r \in Registrations : Discovered(r)
    \/ \E p \in Peers : \E q \in QuotesOf(p) : Response(p, q)
    \/ \E p \in Peers : OutboundFailure(p)
    \/ \E p \in Peers : InboundFailure(p)
    \/ OtherEvent

Spec == Init /\ [][Next]_vars

\* A quote request still outstanding is answered or fails.
Resolve(peer) ==
    \/ \E q \in QuotesOf(peer) : Response(peer, q)
    \/ OutboundFailure(peer)

\* Time to wait for a response back once we send a request (seconds).  The
\* request-response behaviour turns a request unanswered for this long into
\* an OutboundFailure event, so no request stays outstanding forever.
TIMEOUT == 3600

FairSpec == Spec /\ \A p \in Peers : WF_vars(Resolve(p))

\* The runs of one scenario: the rendezvous node answers one discovery
\* query with a batch that lists exactly P1 and P2, a connection with P1 is
\* established once, P1 answers its quote request and the request to P2
\* fails outbound, in every order the swarm can deliver these events.  The
\* events that come with them are part of the runs: further connections
\* with the rendezvous node (their discovery queries stay unanswered), the
\* connection or the unreachable address that precedes the failure of the
\* request to P2, and events the loop ignores.
ScenarioBatches ==
    { r \in [{"P1", "P2"} -> SUBSET (RecordAddrs("P1") \cup RecordAddrs("P2"))] :
        \A p \in DOMAIN r : r[p] # {} /\ r[p] \subseteq RecordAddrs(p) }

ScenarioNext ==
    \/ ConnectionEstablished(rendezvous_peer_id, rendezvous_addr)
    \/ batches = 0 /\ \E r \in ScenarioBatches : Discovered(r)
    \/ "P1" \notin connected /\ \E a \in RecordAddrs("P1") : ConnectionEstablished("P1", a)
    \/ \E q \in QuotesOf("P1") : Response("P1", q)
    \/ OutboundFailure("P2")
    \/ \E a \in RecordAddrs("P2") : ConnectionEstablished("P2", a)
    \/ \E a \in RecordAddrs("P2") : UnreachableAddr("P2", a)
    \/ OtherEvent

ScenarioSpec == Init /\ [][ScenarioNext]_vars

-----------------------------------------------------------------------------
(* The operations of the codecs on one stream *)

\* The frames the remote end of a stream may send: the encoding of any
\* message, with the length of the payload, a length the payload falls
\* short of, or a length beyond the receive buffer.
RemoteFrames ==
    UNION { { [tag |-> "frame", len |-> l, payload |-> to_vec(m)] :
                l \in { to_vec(m).size, to_vec(m).size + 1,
                        BUF_SIZE + 1, BUF_SIZE + BUF_SIZE } }
          : m \in UNION { Messages(e) : e \in Enums } }

\* write_request / write_response of a codec puts a frame on the stream.
Write(codec, direction, msg) ==
    /\ io = NoFrame
    /\ io' = write(codec, direction, msg)
    /\ sent' = [codec |-> codec, direction |-> direction, msg |-> msg]
    /\ received' = NoRead
    /\ UNCHANGED loop_vars

\* The remote end of the stream puts a frame on it.
RemoteWrite(frame) ==
    /\ io = NoFrame
    /\ io' = frame
    /\ sent' = NoWrite
    /\ received' = NoRead
    /\ UNCHANGED loop_vars

\* read_request / read_response of a codec takes the frame off the stream.
Read(codec, direction) ==
    /\ io # NoFrame
    /\ received' = [codec |-> codec, direction |-> direction, frame |-> io,
                    outcome |-> read(codec, direction, io)]
    /\ io' = NoFrame
    /\ UNCHANGED << sent, loop_vars >>

CodecNext ==
    \/ \E c \in Codecs : \E d \in Directions :
          \E m \in Messages(EnumOf(c, d)) : Write(c, d, m)
    \/ \E f \in RemoteFrames : RemoteWrite(f)
    \/ \E c \in Codecs : \E d \in Directions : Read(c, d)

CodecSpec == Init /\ [][CodecNext]_vars

-----------------------------------------------------------------------------
(* Claims *)

SellerPeers == { sellers[i].peer_id : i \in 1..Len(sellers) }

IsReceived(quote_status, peer) ==
    peer \in DOMAIN quote_status /\ quote_status[peer] # Pending

\* C1: every Seller of the returned list pairs a peer with the address the
\* address map stores for that peer (recorded by a connection established
\* with it) and with the quote the quote-status map stores for it, which a
\* Response event of that same peer delivered; nothing of another peer is
\* mixed in.
C1_SellerPairsOwnData ==
    pc # "running" =>
        \A i \in 1..Len(sellers) :
            LET s == sellers[i]
            IN  /\ s.peer_id \in DOMAIN asb_address
                /\ s.multiaddr = asb_address[s.peer_id]
                /\ s.peer_id \in connected
                /\ s.multiaddr \in RecordAddrs(s.peer_id)
                /\ s.peer_id \in DOMAIN asb_quote_status
                /\ asb_quote_status[s.peer_id] = Received(s.quote)
                /\ s.peer_id \in responded
                /\ s.quote \in QuotesOf(s.peer_id)
                /\ \A j \in 1..Len(sellers) : j # i => sellers[j].peer_id # s.peer_id

C1_Witness ==
    /\ pc = "done"
    /\ SellerPeers = {"P1", "P2"}

\* C2: processing an address-unreachable event for the rendezvous address
\* ends the run at once with the empty list, in either phase and whatever
\* the maps hold.
C2_RendezvousUnreachableAborts ==
    [][ \A p \in Peers :
          UnreachableAddr(p, rendezvous_addr) =>
              /\ pc' = "aborted"
              /\ sellers' = << >> ]_vars

C2_Witness ==
    /\ pc = "aborted"
    /\ sellers = << >>
    /\ state = "WaitForQuoteCompletion"
    /\ \E p \in Peers : IsReceived(asb_quote_status, p) /\ p \in DOMAIN asb_address

\* C3, as claimed: a peer that was discovered and afterwards had an
\* outbound failure is never in the final result, whatever events follow.
C3_FailedPeerNeverListed ==
    pc # "running" =>
        \A p \in Peers : failure[p] # "none" => p \notin SellerPeers

\* C3, amended: a peer that was discovered and afterwards had an outbound
\* failure is not in the final result unless a discovery batch processed
\* after that failure lists it again; late responses, connection events
\* and the events of other peers never bring it back.
C3_FailedPeerNotListedUnlessRediscovered ==
    pc # "running" =>
        \A p \in Peers : failure[p] = "failed" => p \notin SellerPeers

C3_Witness ==
    /\ pc = "done"
    /\ failure["P2"] = "failed"
    /\ "P2" \in responded
    /\ "P2" \in connected
    /\ SellerPeers = {"P1"}

\* C4: whenever the run terminates successfully, every non-rendezvous peer
\* that a discovery response listed, that had a connection established and
\* that delivered a quote response is in the returned list.
C4_ReachableResponsiveListed ==
    pc = "done" =>
        \A p \in Peers \ {rendezvous_peer_id} :
            (quote_addresses[p] # {} /\ p \in connected /\ p \in responded)
                => p \in SellerPeers

\* C5: every quote request being answered or failing eventually, the run
\* terminates once a discovery response has been processed, whichever peers
\* were discovered.
C5_RunTerminates == (state = "WaitForQuoteCompletion") ~> (pc # "running")

\* C6: whenever the termination check runs in phase WaitForQuoteCompletion,
\* every peer whose quote status is Received has an entry in the address
\* map, so the expect on the address never fails.
C6_ReceivedHasAddress ==
    /\ pc # "panicked"
    /\ state = "WaitForQuoteCompletion" =>
          \A p \in Peers : IsReceived(asb_quote_status, p) => p \in DOMAIN asb_address

C8_OnlyAbortEndsEarly ==
    (pc # "running" /\ pc # "aborted") =>
        /\ pc = "done"
        /\ state = "WaitForQuoteCompletion"
        /\ \A p \in DOMAIN asb_quote_status : asb_quote_status[p] # Pending
        /\ SellerPeers = DOMAIN asb_quote_status
        /\ Len(sellers) = Cardinality(DOMAIN asb_quote_status)

\* The events of the scenario of C9 have all been delivered.
C9_ScenarioDelivered ==
    /\ batches = 1
    /\ "P1" \in responded
    /\ failure["P2"] = "failed"

\* C9: the batch lists exactly P1 and P2, a connection with P1 is
\* established at addr1, P1 answers with Q1 and the request to P2 fails
\* outbound: in every order of these events the run ends, once they all
\* are delivered at the latest, and it ends with exactly the list
\* [Seller{P1, addr1, Q1}], addr1 being the address of the connection and
\* Q1 the quote P1 delivered.
C9_ScenarioResult ==
    /\ pc \in {"running", "done"}
    /\ C9_ScenarioDelivered => pc = "done"
    /\ pc = "done" =>
          /\ "P1" \in connected /\ "P1" \in responded
          /\ IsReceived(asb_quote_status, "P1")
          /\ "P1" \in DOMAIN asb_address
          /\ sellers = << Seller("P1", asb_address["P1"], asb_quote_status["P1"].quote) >>
          /\ asb_address["P1"] \in RecordAddrs("P1")
          /\ asb_quote_status["P1"].quote \in QuotesOf("P1")

C9_Witness ==
    /\ pc = "done"
    /\ C9_ScenarioDelivered
    /\ sellers = << Seller("P1", << "host1" >>, "Q1") >>

\* C10: a first discovery response that carries no peer record ends the run
\* with the empty list at the termination check of that very event.
C10_EmptyFirstBatchEndsRun ==
    [][ (state = "WaitForDiscovery" /\ Discovered(EmptyMap)) =>
            /\ pc' = "done"
            /\ sellers' = << >> ]_vars

C10_Witness ==
    /\ pc = "done"
    /\ sellers = << >>
    /\ batches = 1
    /\ \A p \in Peers : quote_addresses[p] = {} /\ outstanding[p] = 0

\* C11: no quote request is issued before a discovery response has been
\* processed: while the phase is WaitForDiscovery no request is outstanding,
\* none was answered or failed and no address is registered with the quote
\* exchange, so a run the rendezvous dial failure ends in that phase
\* returns the empty list with no quote request ever issued.
C11_NoRequestBeforeDiscovery ==
    state = "WaitForDiscovery" =>
        /\ batches = 0
        /\ \A p \in Peers :
              /\ outstanding[p] = 0
              /\ quote_addresses[p] = {}
              /\ failure[p] = "none"
        /\ responded = {}
        /\ asb_quote_status = EmptyMap
        /\ pc # "running" => (pc = "aborted" /\ sellers = << >>)

C11_Witness ==
    /\ state = "WaitForDiscovery"
    /\ pc = "aborted"
    /\ sellers = << >>
    /\ connected = {}
    /\ \A p \in Peers : outstanding[p] = 0

\* The frame a write operation put on the stream has been read by the read
\* operation of the same codec for the same direction.
C12_WrittenAndRead ==
    /\ sent # NoWrite
    /\ received # NoRead
    /\ received.codec = sent.codec
    /\ received.direction = sent.direction

C13_OversizedFrameRejected ==
    (received # NoRead /\ received.frame.len > BUF_SIZE) =>
        /\ ~received.outcome.result.ok
        /\ received.outcome.deserialized = NoBytes

C13_Witness ==
    /\ received # NoRead
    /\ received.frame.len = BUF_SIZE + 1
    /\ received.frame.payload.size = BUF_SIZE + 1
    /\ deserialize(EnumOf(received.codec, received.direction),
                   received.frame.payload).ok
    /\ ~received.outcome.result.ok
    /\ received.outcome.deserialized = NoBytes

\* The entry of `peer` has been removed: a discovery batch listed the peer,
\* which inserted an entry, and the peer has no entry now.
C14_Removed(peer) ==
    /\ quote_addresses[peer] # {}
    /\ peer \notin DOMAIN asb_quote_status

\* C14, as claimed: removal from the quote-status map is permanent for the
\* run: once the entry of a peer has been removed, no later event inserts
\* an entry for that peer again.
C14_RemovalPermanent ==
    [][ \A p \in Peers :
          C14_Removed(p) => p \notin DOMAIN asb_quote_status' ]_vars

\* C14, amended: once the entry of a peer has been removed, no event
\* inserts an entry for that peer again except a discovery response that
\* lists the peer; connection events, quote responses (the late ones of
\* the peer included), failures and unreachable addresses never do.
C14_RemovalPermanentUntilRediscovery ==
    [][ \A p \in Peers :
          (C14_Removed(p) /\ p \in DOMAIN asb_quote_status')
              => \E r \in Registrations : p \in DOMAIN r /\ Discovered(r) ]_vars

C14_Witness ==
    /\ pc = "running"
    /\ C14_Removed("P2")
    /\ failure["P2"] = "failed"
    /\ "P2" \in responded
    /\ "P2" \in connected
    /\ batches = MaxBatches

\* C15: the phase never regresses: it starts as WaitForDiscovery, it is
\* WaitForQuoteCompletion exactly once a discovery response has been
\* processed (processing a further one leaves it there), and no event
\* changes it from WaitForQuoteCompletion back to WaitForDiscovery.
C15_PhaseNeverRegresses ==
    /\ state = "WaitForDiscovery"
    /\ [](state = "WaitForDiscovery" <=> batches = 0)
    /\ [][ /\ state = "WaitForQuoteCompletion" => state' = "WaitForQuoteCompletion"
           /\ (\E r \in Registrations : Discovered(r))
                  => state' = "WaitForQuoteCompletion"
           /\ state' # state => \E r \in Registrations : Discovered(r) ]_vars

C15_Witness ==
    /\ state = "WaitForQuoteCompletion"
    /\ batches = MaxBatches
    /\ pc = "running"
    /\ \E p \in Peers : p \in connected /\ IsReceived(asb_quote_status, p)

\* C16: a quote response from a peer that has no entry in the quote-status
\* map is dropped: after the event the peer has no entry, the entries of
\* the other peers, the address map and the phase are as before, the run is
\* not aborted, and the termination check ends the iteration as it may on
\* the fields the event found.  The handler leaves the map as it is for
\* every peer without an entry in every reachable state, the states of
\* phase WaitForDiscovery included.
C16_UnexpectedResponseDropped ==
    /\ [][ \A p \in Peers : \A q \in QuotesOf(p) :
             (Response(p, q) /\ p \notin DOMAIN asb_quote_status) =>
                 /\ p \notin DOMAIN asb_quote_status'
                 /\ asb_quote_status' = asb_quote_status
                 /\ asb_address' = asb_address
                 /\ state' = state
                 /\ pc' # "aborted"
                 /\ [pc |-> pc', sellers |-> sellers'] \in
                       TerminationCheck(state, asb_quote_status, asb_address) ]_vars
    /\ [](\A p \in Peers \ DOMAIN asb_quote_status : \A q \in QuotesOf(p) :
             on_response(asb_quote_status, p, q) = asb_quote_status)

\* A state a dropped response of P2 leaves: P2 answered, it has no entry,
\* P1 is still waited for.
C16_Witness ==
    /\ pc = "running"
    /\ batches = 1
    /\ "P2" \in responded
    /\ outstanding["P2"] = 0
    /\ failure["P2"] = "none"
    /\ "P2" \notin DOMAIN asb_quote_status
    /\ "P1" \in DOMAIN asb_quote_status
    /\ asb_quote_status["P1"] = Pending
    /\ "P2" \in DOMAIN asb_address

\* C17: an address-unreachable event for an address other than the
\* rendezvous address, reported for peer P, removes the entry of P from the
\* quote-status map if there is one and changes nothing else: the entries
\* of all other peers, the address map and the phase are as before, and the
\* run is not aborted.
C17_UnreachableRemovesOnlyThatPeer ==
    [][ \A p \in Peers : \A a \in RecordAddrs(p) :
          UnreachableAddr(p, a) =>
              /\ a # rendezvous_addr
              /\ DOMAIN asb_quote_status' = (DOMAIN asb_quote_status) \ {p}
              /\ \A k \in DOMAIN asb_quote_status' :
                    asb_quote_status'[k] = asb_quote_status[k]
              /\ asb_address' = asb_address
              /\ state' = state
              /\ pc' # "aborted" ]_vars

\* P2 was listed and its request is still outstanding, no connection with
\* it was established, and its entry is gone: an unreachable address of P2
\* removed it, while P1 keeps its entry and its address.
C17_Witness ==
    /\ pc = "running"
    /\ batches = 1
    /\ outstanding["P2"] = 1
    /\ "P2" \notin connected
    /\ "P2" \notin DOMAIN asb_quote_status
    /\ "P1" \in DOMAIN asb_quote_status
    /\ "P1" \in DOMAIN asb_address

\* C18: a quote-exchange failure event, outbound or inbound, whose peer is
\* the rendezvous node leaves the quote-status map, the address map and the
\* phase as they are; the same event for any other peer P removes exactly
\* the entry of P from the quote-status map and leaves every other entry,
\* the address map and the phase as they are.
C18_FailureRemovesOnlyThatPeer ==
    [][ \A p \in Peers :
          (OutboundFailure(p) \/ InboundFailure(p)) =>
              /\ asb_address' = asb_address
              /\ state' = state
              /\ IF p = rendezvous_peer_id
                 THEN asb_quote_status' = asb_quote_status
                 ELSE /\ DOMAIN asb_quote_status' = (DOMAIN asb_quote_status) \ {p}
                      /\ \A k \in DOMAIN asb_quote_status' :
                            asb_quote_status'[k] = asb_quote_status[k] ]_vars

\* The only request to the rendezvous node failed and its entry is still
\* Pending; the request to P2 failed and P2 has no entry; P1 keeps its
\* Received quote and its address.
C18_Witness ==
    /\ batches = 1
    /\ failure[rendezvous_peer_id] = "failed"
    /\ outstanding[rendezvous_peer_id] = 0
    /\ rendezvous_peer_id \in DOMAIN asb_quote_status
    /\ asb_quote_status[rendezvous_peer_id] = Pending
    /\ failure["P2"] = "failed"
    /\ "P2" \notin DOMAIN asb_quote_status
    /\ IsReceived(asb_quote_status, "P1")
    /\ "P1" \in DOMAIN asb_address

\* C19: every address registered with the quote exchange for a discovered
\* peer is the normalized address: it ends with the identity suffix of that
\* peer, the suffix being appended to the discovered address that does not
\* already end with it.
C19_RegisteredAddressNormalized ==
    \A p \in Peers : \A a \in quote_addresses[p] :
        /\ ends_with(a, p2p_suffix(p))
        /\ \E discovered \in RecordAddrs(p) : a = address_with_p2p(p, discovered)

\* C20: in every reachable state the address map holds a peer only if a
\* ConnectionEstablished event of that peer has been processed, and never
\* the rendezvous node; a connection established with the rendezvous node
\* issues a discovery query and records no address, a connection
\* established with any other peer records its remote address over the
\* one recorded before, and no event removes an entry of the address map
\* or changes it otherwise.
C20_AddressOnlyFromConnection ==
    /\ [](/\ DOMAIN asb_address \subseteq connected
          /\ rendezvous_peer_id \notin DOMAIN asb_address)
    /\ [][ \A p \in Peers : \A a \in {rendezvous_addr} \cup RecordAddrs(p) :
             ConnectionEstablished(p, a) =>
                 IF p = rendezvous_peer_id
                 THEN /\ asb_address' = asb_address
                      /\ discover_pending' = discover_pending + 1
                 ELSE /\ asb_address' = Insert(asb_address, p, a)
                      /\ asb_address'[p] = a
                      /\ discover_pending' = discover_pending ]_vars
    /\ [][ /\ DOMAIN asb_address \subseteq DOMAIN asb_address'
           /\ asb_address' # asb_address =>
                 \E p \in Peers : \E a \in RecordAddrs(p) :
                     ConnectionEstablished(p, a) ]_vars

\* Connections were established with the rendezvous node and with P1; the
\* address of P1 recorded at its first connection was overwritten by that
\* of a later one or kept by every later event, the entry of P1 in the
\* quote-status map is gone and its address is still there.
C20_Witness ==
    /\ rendezvous_peer_id \in connected
    /\ discover_pending + batches = MaxBatches
    /\ DOMAIN asb_address = {"P1"}
    /\ asb_address["P1"] = << "host1", "P1" >>
    /\ "P1" \notin DOMAIN asb_quote_status
    /\ "P1" \in responded

\* C21: in every reachable state every peer other than the rendezvous node
\* whose quote status is Pending has at least one quote request outstanding
\* (issued, neither answered by a Response event nor failed): Pending is
\* inserted together with a new request, and every Response or
\* OutboundFailure event of the peer leaves its entry Received or removed.
C21_PendingHasOutstandingRequest ==
    /\ [](\A p \in Peers \ {rendezvous_peer_id} :
             (p \in DOMAIN asb_quote_status /\ asb_quote_status[p] = Pending)
                 => outstanding[p] > 0)
    /\ [][ \A p \in Peers \ {rendezvous_peer_id} :
             outstanding'[p] < outstanding[p] =>
                 ~(p \in DOMAIN asb_quote_status' /\ asb_quote_status'[p] = Pending) ]_vars

\* P1 was listed twice; the first request was answered and the quote reset
\* by the second batch, whose request is the one outstanding for the
\* Pending entry.  The request to P2 failed and P2 has no entry.
C21_Witness ==
    /\ pc = "running"
    /\ "P1" \in discarded
    /\ "P1" \in DOMAIN asb_quote_status
    /\ asb_quote_status["P1"] = Pending
    /\ outstanding["P1"] = 1
    /\ failure["P2"] = "failed"
    /\ outstanding["P2"] = 0
    /\ "P2" \notin DOMAIN asb_quote_status

====
